---- MODULE Spec2Model ----
(***************************************************************************)
(* Flight-phase battery analysis (backend/battery_analysis.py and the      *)
(* stand-alone script components/process_ulog.py).                          *)
(*                                                                         *)
(* Number representation.                                                  *)
(*  - Timestamps are integers counted in clock units of 1/UnitsPerSec      *)
(*    second (the source counts microseconds and divides by 1e6); the      *)
(*    column "time" therefore holds seconds * UnitsPerSec, exactly.        *)
(*  - Velocities, z and altitude are integers counted in tenths (0.1 m/s   *)
(*    and 0.1 m), so the thresholds 0.1, 2.0, 5.0 are 1, 20, 50.           *)
(*  - Every value the source computes by a division is an exact rational   *)
(*    or one of the IEEE markers NaN / +-Inf (numpy float64 division does  *)
(*    not raise).  Floating-point rounding error is not modelled.          *)
(***************************************************************************)
EXTENDS Integers, Sequences, FiniteSets, TLC

VARIABLES
    pc,             \* position of the analysis run inside process_ulog
    ulog,           \* the recording handed to process_ulog (decoder output)
    df_position,    \* motion frame
    df_battery,     \* battery frame
    df_combined,    \* aligned rows
    time_threshold, \* consolidate_phases parameter
    current_phase,  \* consolidate_phases loop state
    start_time,
    total_time,
    row_i,          \* index of the next row df.iterrows() yields
    consolidated,   \* emitted (phase, start, end) tuples
    totals,         \* flight-wide and non-ground totals
    phase_data,     \* per-segment records
    df_phase,       \* grouped report frame (+ summary)
    result_files,   \* contents of RESULT_FOLDER, by file name
    outcome,        \* what process_ulog returned
    uploads,        \* contents of UPLOAD_FOLDER, by file name
    req,            \* the in-flight upload requests
    cls             \* classifier harness: inputs and the two labels

runVars == <<pc, ulog, df_position, df_battery, df_combined, time_threshold,
             current_phase, start_time, total_time, row_i, consolidated,
             totals, phase_data, df_phase, result_files, outcome>>
vars == <<runVars, uploads, req, cls>>

-----------------------------------------------------------------------------
(* Bounds of the model *)

MaxMotion == 4      \* longest motion series
UnitsPerSec == 2    \* clock units per second
MaxThreshold == 3   \* largest time_threshold tried on consolidate_phases alone
NumRequests == 2    \* concurrent upload requests

Gaps == {1, 2}              \* spacing of consecutive samples, in clock units
Currents == {1, 2}          \* battery current_a values
Voltages == {12}            \* battery voltage_v values (never read)
BatteryLengths == {0, 1, 2} \* lengths of the battery series
MotionStarts == {3}         \* raw timestamp of the first motion sample
BatteryStarts == {5}        \* raw timestamp of the first battery sample

None == "none"

-----------------------------------------------------------------------------
(* float64 values: exact rationals in lowest terms, NaN, +Inf, -Inf *)

Abs(x) == IF x < 0 THEN -x ELSE x
Sign(x) == IF x < 0 THEN -1 ELSE IF x > 0 THEN 1 ELSE 0

RECURSIVE Gcd(_, _)
Gcd(a, b) == IF b = 0 THEN a ELSE Gcd(b, a % b)

NaN == [k |-> "nan", n |-> 0, d |-> 1]
Inf(s) == [k |-> "inf", n |-> s, d |-> 1]
Rat(n, d) ==
    LET g == Gcd(Abs(n), Abs(d))
        s == IF d < 0 THEN -1 ELSE 1
    IN [k |-> "num", n |-> s * (n \div g), d |-> s * (d \div g)]
Num(n) == [k |-> "num", n |-> n, d |-> 1]

IsNum(x) == x.k = "num"
IsNaN(x) == x.k = "nan"
IsInf(x) == x.k = "inf"
FSign(x) == Sign(x.n)

\* x / y as numpy float64 computes it (a zero divisor warns, never raises)
FDiv(x, y) ==
    IF IsNaN(x) \/ IsNaN(y) THEN NaN
    ELSE IF IsInf(x) THEN
        IF IsInf(y) THEN NaN
        ELSE Inf(IF FSign(y) < 0 THEN -(x.n) ELSE x.n)
    ELSE IF IsInf(y) THEN Num(0)
    ELSE IF y.n = 0 THEN (IF x.n = 0 THEN NaN ELSE Inf(FSign(x)))
    ELSE Rat(x.n * y.d, x.d * y.n)

FMul(x, y) ==
    IF IsNaN(x) \/ IsNaN(y) THEN NaN
    ELSE IF IsInf(x) \/ IsInf(y) THEN
        (IF FSign(x) * FSign(y) = 0 THEN NaN ELSE Inf(FSign(x) * FSign(y)))
    ELSE Rat(x.n * y.n, x.d * y.d)

FAdd(x, y) ==
    IF IsNaN(x) \/ IsNaN(y) THEN NaN
    ELSE IF IsInf(x) /\ IsInf(y) THEN (IF x.n = y.n THEN x ELSE NaN)
    ELSE IF IsInf(x) THEN x
    ELSE IF IsInf(y) THEN y
    ELSE Rat(x.n * y.d + y.n * x.d, x.d * y.d)

FSub(x, y) == FAdd(x, FMul(Num(-1), y))

\* x <= y on numbers (false when either side is NaN, as IEEE comparison is)
FLeq(x, y) ==
    IF IsNaN(x) \/ IsNaN(y) THEN FALSE
    ELSE IF IsInf(x) THEN (x.n < 0 \/ (IsInf(y) /\ y.n > 0))
    ELSE IF IsInf(y) THEN y.n > 0
    ELSE x.n * y.d <= y.n * x.d

\* Series.sum(): the values added left to right; 0.0 for an empty series
RECURSIVE FSum(_)
FSum(s) == IF s = <<>> THEN Num(0) ELSE FAdd(FSum(SubSeq(s, 1, Len(s) - 1)), s[Len(s)])

\* round(x, 2) of a float64: nearest multiple of 0.01, an exact half to even
Round2(x) ==
    IF ~IsNum(x) THEN x
    ELSE LET a == Abs(x.n) * 100
             q == a \div x.d
             r == a % x.d
             up == (2 * r > x.d) \/ (2 * r = x.d /\ q % 2 = 1)
         IN Rat(FSign(x) * (IF up THEN q + 1 ELSE q), 100)

-----------------------------------------------------------------------------
(* Sequence helpers standing for pandas columns *)

\* df[name]: the series of one column
Col(df, name) == [i \in 1..Len(df) |-> df[i][name]]

\* a series of clock-unit counts, in seconds
Seconds(col) == [i \in 1..Len(col) |-> Rat(col[i], UnitsPerSec)]

-----------------------------------------------------------------------------
(* process_ulog, stage by stage *)

Secs(u) == Rat(u, UnitsPerSec)

\* (df["timestamp"] - t0) / 1e6, kept in clock units
WithTime(df) == [i \in 1..Len(df) |-> df[i] @@ [time |-> df[i].timestamp - df[1].timestamp]]

\* df.sort_values("time"): stable insertion sort
RECURSIVE InsertByTime(_, _)
InsertByTime(s, r) ==
    IF s = <<>> THEN <<r>>
    ELSE IF s[Len(s)].time <= r.time THEN Append(s, r)
    ELSE Append(InsertByTime(SubSeq(s, 1, Len(s) - 1), r), s[Len(s)])

RECURSIVE SortByTime(_)
SortByTime(df) ==
    IF df = <<>> THEN <<>>
    ELSE InsertByTime(SortByTime(SubSeq(df, 1, Len(df) - 1)), df[Len(df)])

\* merge_asof(direction="nearest"): last right row at or before t, first right
\* row at or after t (0 when there is none)
BackwardIndex(right, t) ==
    LET S == {j \in 1..Len(right) : right[j].time <= t}
    IN IF S = {} THEN 0 ELSE CHOOSE j \in S : \A k \in S : k <= j

ForwardIndex(right, t) ==
    LET S == {j \in 1..Len(right) : right[j].time >= t}
    IN IF S = {} THEN 0 ELSE CHOOSE j \in S : \A k \in S : j <= k

\* mutant: the forward candidate when equally near
PickNearest_Forward(bri, fri, bdiff, fdiff) == IF bdiff < fdiff THEN bri ELSE fri

\* the nearer of the two candidates; the backward one when equally near
PickNearest(bri, fri, bdiff, fdiff) == IF bdiff <= fdiff THEN bri ELSE fri

NearestIndex(right, t) ==
    LET bri == BackwardIndex(right, t)
        fri == ForwardIndex(right, t)
    IN IF bri # 0 /\ fri # 0
       THEN PickNearest(bri, fri, t - right[bri].time, right[fri].time - t)
       ELSE IF bri # 0 THEN bri ELSE fri

MergeAsof(left, right) ==
    [i \in 1..Len(left) |->
        LET j == NearestIndex(right, left[i].time)
        IN [timestamp_x |-> left[i].timestamp,
            vx |-> left[i].vx, vy |-> left[i].vy, vz |-> left[i].vz, z |-> left[i].z,
            time |-> left[i].time,
            timestamp_y |-> right[j].timestamp,
            voltage_v |-> right[j].voltage_v,
            current_a |-> right[j].current_a]]

\* np.sqrt(vx**2 + vy**2); the model's inputs make the sum a perfect square
HorizontalVelocity(vx, vy) ==
    CHOOSE h \in 0..(Abs(vx) + Abs(vy)) : h * h = vx * vx + vy * vy

\* horizontal_velocity, time_delta = time.diff().fillna(0), altitude = -z
Derive(df) ==
    [i \in 1..Len(df) |->
        df[i] @@ [horizontal_velocity |-> HorizontalVelocity(df[i].vx, df[i].vy),
                  time_delta |-> IF i = 1 THEN 0 ELSE df[i].time - df[i - 1].time,
                  altitude |-> -(df[i].z)]]

\* mutant: rows with a zero time_delta are kept
KeepRow_NonNegative(r) == r.time_delta >= 0

KeepRow(r) == r.time_delta > 0
FilterRows(df) == SelectSeq(df, KeepRow)

thresholds ==
    [ground_vel |-> 1, cruise_vel |-> 20, altitude_min |-> 50,
     climb_vz |-> -1, descend_vz |-> 1]

\* mutant: the choices of the second and third condition exchanged
choices_Swapped == <<"On the Ground", "Descending", "Cruising", "Climbing", "Hovering">>

choices == <<"On the Ground", "Cruising", "Descending", "Climbing", "Hovering">>

\* the condition list of the np.select form, for one row
conditions(vz, hv, alt) ==
    << Abs(vz) < thresholds.ground_vel /\ Abs(hv) < thresholds.ground_vel
           /\ alt < thresholds.altitude_min,
       hv > thresholds.cruise_vel /\ alt >= thresholds.altitude_min,
       vz > thresholds.descend_vz,
       vz < thresholds.climb_vz,
       Abs(vz) < thresholds.ground_vel /\ alt >= thresholds.altitude_min >>

\* np.select(condlist, choicelist, default): the choice of the first true condition
NpSelect(condlist, choicelist, default) ==
    LET hit == {i \in 1..Len(condlist) : condlist[i]}
    IN IF hit = {} THEN default
       ELSE choicelist[CHOOSE i \in hit : \A k \in hit : i <= k]

RawPhase(vz, hv, alt) == NpSelect(conditions(vz, hv, alt), choices, "Unknown")

\* classify_phase of the stand-alone script
script_thresholds ==
    [ground |-> 1, cruise |-> 20, altitude |-> 50, climb |-> -1, descend |-> 1]

classify_phase(z_velocity, horizontal_velocity, altitude) ==
    IF Abs(z_velocity) < script_thresholds.ground
          /\ Abs(horizontal_velocity) < script_thresholds.ground
          /\ altitude < script_thresholds.altitude
    THEN "On the Ground"
    ELSE IF horizontal_velocity > script_thresholds.cruise
               /\ altitude >= script_thresholds.altitude
    THEN "Cruising"
    ELSE IF z_velocity > script_thresholds.descend THEN "Descending"
    ELSE IF z_velocity < script_thresholds.climb THEN "Climbing"
    ELSE IF Abs(z_velocity) < script_thresholds.ground
               /\ altitude >= script_thresholds.altitude
    THEN "Hovering"
    ELSE "Unknown"

Classify(df) ==
    [i \in 1..Len(df) |->
        df[i] @@ [raw_phase |-> RawPhase(df[i].vz, df[i].horizontal_velocity, df[i].altitude)]]

-----------------------------------------------------------------------------
(* consolidate_phases *)

DefaultTimeThreshold == 1 * UnitsPerSec

\* mutant: the threshold test is one clock unit too lenient
MeetsThreshold_Lenient(total, threshold) == total + 1 >= threshold

MeetsThreshold(total, threshold) == total >= threshold

\* mutant: a label change keeps the start time of the run before
ConsolidateRow_KeepStart(c, row, threshold) ==
    IF row.raw_phase = c.current_phase
    THEN [c EXCEPT !.total_time = @ + row.time_delta]
    ELSE [current_phase |-> row.raw_phase,
          start_time |-> c.start_time,
          total_time |-> row.time_delta,
          consolidated |->
              IF MeetsThreshold(c.total_time, threshold)
              THEN Append(c.consolidated, <<c.current_phase, c.start_time, row.time>>)
              ELSE c.consolidated]

\* the loop body, on the loop state c and one row
ConsolidateRow(c, row, threshold) ==
    IF row.raw_phase = c.current_phase
    THEN [c EXCEPT !.total_time = @ + row.time_delta]
    ELSE [current_phase |-> row.raw_phase,
          start_time |-> row.time,
          total_time |-> row.time_delta,
          consolidated |->
              IF MeetsThreshold(c.total_time, threshold)
              THEN Append(c.consolidated, <<c.current_phase, c.start_time, row.time>>)
              ELSE c.consolidated]

\* the flush after the loop
ConsolidateFlush(c, df, threshold) ==
    IF MeetsThreshold(c.total_time, threshold)
    THEN Append(c.consolidated, <<c.current_phase, c.start_time, df[Len(df)].time>>)
    ELSE c.consolidated

\* mutant: the accumulator seeded with the first row's time_delta
ConsolidateInit_Preloaded(df) ==
    [current_phase |-> df[1].raw_phase, start_time |-> df[1].time,
     total_time |-> df[1].time_delta, consolidated |-> <<>>]

ConsolidateInit(df) ==
    [current_phase |-> df[1].raw_phase, start_time |-> df[1].time,
     total_time |-> 0, consolidated |-> <<>>]

RECURSIVE ConsolidateLoop(_, _, _, _)
ConsolidateLoop(c, df, i, threshold) ==
    IF i > Len(df) THEN c
    ELSE ConsolidateLoop(ConsolidateRow(c, df[i], threshold), df, i + 1, threshold)

\* consolidate_phases(df, time_threshold), df not empty
consolidate_phases(df, threshold) ==
    ConsolidateFlush(ConsolidateLoop(ConsolidateInit(df), df, 1, threshold), df, threshold)

-----------------------------------------------------------------------------
(* totals, per-segment aggregation, report *)

\* df["mAh"] = current_a * time_delta / 3.6, time_delta in seconds
WithmAh(df) ==
    [i \in 1..Len(df) |->
        df[i] @@ [mAh |-> Rat(10 * df[i].current_a * df[i].time_delta, 36 * UnitsPerSec)]]

\* mutant: the ground label misspelt, so that no row is excluded
NotOnGround_Misspelt(r) == r.raw_phase # "Ground"

NotOnGround(r) == r.raw_phase # "On the Ground"

Totals(df) ==
    LET total_mAh == FSum(Col(df, "mAh"))
        flight_time == Secs(df[Len(df)].time - df[1].time)
        non_ground == SelectSeq(df, NotOnGround)
        total_mAh_non_ground == FSum(Col(non_ground, "mAh"))
        total_time_non_ground == FSum(Seconds(Col(non_ground, "time_delta")))
    IN [total_mAh |-> total_mAh,
        total_time |-> flight_time,
        avg_mAh_per_s |-> FDiv(total_mAh, flight_time),
        total_mAh_non_ground |-> total_mAh_non_ground,
        total_time_non_ground |-> total_time_non_ground,
        avg_mAh_per_s_non_ground |-> FDiv(total_mAh_non_ground, total_time_non_ground)]

\* mutant: the mask closed at its upper end
PhaseMask_Closed(r, start, end) == r.time >= start /\ r.time <= end

\* (df["time"] >= start) & (df["time"] < end)
PhaseMask(r, start, end) == r.time >= start /\ r.time < end

PhaseRows(df, start, end) ==
    LET InPhase(r) == PhaseMask(r, start, end) IN SelectSeq(df, InPhase)

\* one iteration of the aggregation loop, for the segment seg
PhaseRecord(df, seg, tot) ==
    LET phase_df == PhaseRows(df, seg[2], seg[3])
        phase_duration == Secs(seg[3] - seg[2])
        phase_mAh == FSum(Col(phase_df, "mAh"))
        avg_dr_phase == FDiv(phase_mAh, phase_duration)
    IN [Phase |-> seg[1],
        TotalTime |-> phase_duration,
        TotalDraw |-> phase_mAh,
        AvgDr |-> avg_dr_phase,
        DiffofAvg |-> FMul(FDiv(avg_dr_phase, tot.avg_mAh_per_s_non_ground), Num(100)),
        PctTime |-> FMul(FDiv(phase_duration, tot.total_time), Num(100))]

PhaseData(df, segs, tot) == [i \in 1..Len(segs) |-> PhaseRecord(df, segs[i], tot)]

\* groupby keys come out sorted; this is the string order of the labels
LabelOrder ==
    <<"Climbing", "Cruising", "Descending", "Hovering", "On the Ground", "Unknown">>

NotNaN(x) == ~IsNaN(x)
\* groupby "sum" and "mean" skip NaN entries
GroupSum(s) == FSum(SelectSeq(s, NotNaN))
GroupMean(s) ==
    LET v == SelectSeq(s, NotNaN)
    IN IF v = <<>> THEN NaN ELSE FDiv(FSum(v), Num(Len(v)))

\* mutant: no grouping, one key per segment record
GroupKeys_PerSegment(pd) == [i \in 1..Len(pd) |-> pd[i].Phase]

\* the keys of groupby("Phase"): the labels that occur, each once, sorted
GroupKeys(pd) ==
    LET Occurs(l) == \E i \in 1..Len(pd) : pd[i].Phase = l
    IN SelectSeq(LabelOrder, Occurs)

GroupAgg(pd, label) ==
    LET Same(r) == r.Phase = label
        g == SelectSeq(pd, Same)
    IN [Phase |-> label,
        TotalTime |-> GroupSum(Col(g, "TotalTime")),
        TotalDraw |-> GroupSum(Col(g, "TotalDraw")),
        AvgDr |-> GroupMean(Col(g, "AvgDr")),
        DiffofAvg |-> GroupMean(Col(g, "DiffofAvg")),
        PctTime |-> GroupSum(Col(g, "PctTime")),
        DrawPerMinute |-> NaN]

\* pd.DataFrame(phase_data).groupby("Phase", as_index=False).agg(...)
GroupByPhase(pd) ==
    LET keys == GroupKeys(pd) IN [i \in 1..Len(keys) |-> GroupAgg(pd, keys[i])]

SummaryLabel == "Total Flight Summary"

summary_data(tot) ==
    [Phase |-> SummaryLabel,
     TotalTime |-> tot.total_time,
     TotalDraw |-> tot.total_mAh,
     AvgDr |-> NaN, DiffofAvg |-> NaN, PctTime |-> NaN,
     DrawPerMinute |-> Round2(FDiv(tot.total_mAh, FDiv(tot.total_time, Num(60))))]

\* pd.concat([df_phase, pd.DataFrame([summary_data])], ignore_index=True)
ConcatSummary(grouped, tot) == Append(grouped, summary_data(tot))

\* to_json(orient="records"): NaN and infinities are written as null
Null == [k |-> "null", n |-> 0, d |-> 1]
JsonNumber(x) == IF IsNum(x) THEN x ELSE Null
ToJson(df) ==
    [i \in 1..Len(df) |->
        [Phase |-> df[i].Phase,
         TotalTime |-> JsonNumber(df[i].TotalTime),
         TotalDraw |-> JsonNumber(df[i].TotalDraw),
         AvgDr |-> JsonNumber(df[i].AvgDr),
         DiffofAvg |-> JsonNumber(df[i].DiffofAvg),
         PctTime |-> JsonNumber(df[i].PctTime),
         DrawPerMinute |-> JsonNumber(df[i].DrawPerMinute)]]

ResultName == "phase_analysis.json"
ResultPath == "results/phase_analysis.json"
IndexErrorText == "single positional indexer is out-of-bounds"
KeyErrorText == "'Phase'"

\* mutant: every returned text taken for the path of a report
EndsWithJson_Always(s) == s = s

\* result_file.endswith(".json"), over the strings process_ulog can return
EndsWithJson(s) == s = ResultPath

\* a file that does not exist (a written report holds at least the summary)
NoFile == <<>>

\* process_ulog as a function of the decoded recording:
\* what it returns and what it writes (NoFile: nothing written)
ProcessUlog(u) ==
    IF u.position = <<>> \/ u.battery = <<>>
    THEN [returns |-> IndexErrorText, written |-> NoFile]
    ELSE
    LET merged == MergeAsof(SortByTime(WithTime(u.position)), SortByTime(WithTime(u.battery)))
        rows == Classify(FilterRows(Derive(merged)))
    IN IF rows = <<>>
       THEN [returns |-> IndexErrorText, written |-> NoFile]
       ELSE
       LET segs == consolidate_phases(rows, DefaultTimeThreshold)
           df == WithmAh(rows)
           tot == Totals(df)
           pd == PhaseData(df, segs, tot)
       IN IF pd = <<>>
          THEN [returns |-> KeyErrorText, written |-> NoFile]
          ELSE [returns |-> ResultPath,
                written |-> ToJson(ConcatSummary(GroupByPhase(pd), tot))]

-----------------------------------------------------------------------------
(* The recordings the model analyses *)

\* (vx, vy, vz, z) in tenths: at rest on the ground, climbing, cruising at 10 m
GroundSample == [vx |-> 0, vy |-> 0, vz |-> 0, z |-> 0]
ClimbSample == [vx |-> 0, vy |-> 0, vz |-> -10, z |-> -20]
CruiseSample == [vx |-> 30, vy |-> 40, vz |-> 0, z |-> -100]
MotionSamples == {GroundSample, ClimbSample, CruiseSample}

RECURSIVE SumTo(_, _)
SumTo(g, i) == IF i = 0 THEN 0 ELSE SumTo(g, i - 1) + g[i]

\* timestamps start, start + g[1], start + g[1] + g[2], ...: strictly increasing
Stamps(start, g, n) == [i \in 1..n |-> start + SumTo(g, i - 1)]

\* the first sample is taken at rest on the ground (its row never survives the
\* time_delta > 0 filter, so its kinematics reach no later stage)
MotionSeries(n) ==
    IF n = 0 THEN {<<>>}
    ELSE {[i \in 1..n |-> [timestamp |-> Stamps(st, g, n)[i], vx |-> k[i].vx,
                           vy |-> k[i].vy, vz |-> k[i].vz, z |-> k[i].z]] :
             st \in MotionStarts, g \in [1..(n - 1) -> Gaps],
             k \in {f \in [1..n -> MotionSamples] : f[1] = GroundSample}}

BatterySeries(n) ==
    IF n = 0 THEN {<<>>}
    ELSE {[i \in 1..n |-> [timestamp |-> Stamps(st, g, n)[i], voltage_v |-> v,
                           current_a |-> c[i]]] :
             st \in BatteryStarts, g \in [1..(n - 1) -> Gaps], v \in Voltages,
             c \in [1..n -> Currents]}

\* three battery samples with alternating current, every spacing
LongBatterySeries ==
    {[i \in 1..3 |-> [timestamp |-> Stamps(st, g, 3)[i], voltage_v |-> v,
                      current_a |-> IF i = 2 THEN 2 ELSE 1]] :
        st \in BatteryStarts, g \in [1..2 -> Gaps], v \in Voltages}

GeneralRecordings ==
    {[position |-> m, battery |-> b] :
        m \in UNION {MotionSeries(n) : n \in 0..MaxMotion},
        b \in UNION {BatterySeries(n) : n \in BatteryLengths} \cup LongBatterySeries}

\* a battery series with one constant current, sampled at 1 Hz
ConstantBattery(c) ==
    {[i \in 1..n |-> [timestamp |-> st + (i - 1) * UnitsPerSec, voltage_v |-> v,
                      current_a |-> c]] :
        st \in BatteryStarts, v \in Voltages, n \in BatteryLengths \ {0}}

\* scenario 1: 10 motion rows at 1 Hz at rest at z = 0, constant current 5
Scenario1Motion ==
    [i \in 1..10 |-> [timestamp |-> 3 + (i - 1) * UnitsPerSec,
                      vx |-> 0, vy |-> 0, vz |-> 0, z |-> 0]]
Scenario1 == {[position |-> Scenario1Motion, battery |-> b] : b \in ConstantBattery(5)}

\* scenario 2: 5 climbing rows (vz = -1, z decreasing to -5 m), then 5 cruising
\* rows (vz = 0, vx = 5, at 5 m), all at 1 Hz, constant current 10
Scenario2Motion ==
    [i \in 1..10 |->
        IF i <= 5
        THEN [timestamp |-> 3 + (i - 1) * UnitsPerSec,
              vx |-> 0, vy |-> 0, vz |-> -10, z |-> -(10 * i)]
        ELSE [timestamp |-> 3 + (i - 1) * UnitsPerSec,
              vx |-> 50, vy |-> 0, vz |-> 0, z |-> -50]]
Scenario2 == {[position |-> Scenario2Motion, battery |-> b] : b \in ConstantBattery(10)}

Recordings == GeneralRecordings \cup Scenario1 \cup Scenario2

-----------------------------------------------------------------------------
(* One analysis run: process_ulog(file_path) *)

RunInit(u, threshold) ==
    /\ pc = "load"
    /\ ulog = u
    /\ df_position = <<>>
    /\ df_battery = <<>>
    /\ df_combined = <<>>
    /\ time_threshold = threshold
    /\ current_phase = None
    /\ start_time = 0
    /\ total_time = 0
    /\ row_i = 0
    /\ consolidated = <<>>
    /\ totals = None
    /\ phase_data = <<>>
    /\ df_phase = <<>>
    /\ result_files = [f \in {ResultName} |-> NoFile]
    /\ outcome = None

NoUploads ==
    /\ uploads = <<>>
    /\ req = <<>>

NoClassifier == cls = None

loopVars == <<current_phase, start_time, total_time, row_i, consolidated>>
frameVars == <<df_position, df_battery, df_combined>>
reportVars == <<totals, phase_data, df_phase, result_files>>
otherVars == <<uploads, req, cls>>

\* the except clause: return str(e)
Raise(text) ==
    /\ outcome' = text
    /\ pc' = "done"

\* ULog(file_path), get_dataset(...).data, the two DataFrames
Load ==
    /\ pc = "load"
    /\ df_position' = ulog.position
    /\ df_battery' = ulog.battery
    /\ pc' = "normalize"
    /\ UNCHANGED <<ulog, df_combined, time_threshold, loopVars, reportVars, outcome, otherVars>>

\* t0 = df["timestamp"].iloc[0] (IndexError on an empty frame), df["time"]
Normalize ==
    /\ pc = "normalize"
    /\ IF df_position = <<>> \/ df_battery = <<>>
       THEN /\ Raise(IndexErrorText)
            /\ UNCHANGED <<df_position, df_battery>>
       ELSE /\ df_position' = WithTime(df_position)
            /\ df_battery' = WithTime(df_battery)
            /\ pc' = "merge"
            /\ UNCHANGED outcome
    /\ UNCHANGED <<ulog, df_combined, time_threshold, loopVars, reportVars, otherVars>>

Merge ==
    /\ pc = "merge"
    /\ df_combined' = MergeAsof(SortByTime(df_position), SortByTime(df_battery))
    /\ pc' = "derive"
    /\ UNCHANGED <<ulog, df_position, df_battery, time_threshold, loopVars, reportVars,
                   outcome, otherVars>>

\* derived columns, then the time_delta > 0 filter
DeriveAndFilter ==
    /\ pc = "derive"
    /\ df_combined' = FilterRows(Derive(df_combined))
    /\ pc' = "classify"
    /\ UNCHANGED <<ulog, df_position, df_battery, time_threshold, loopVars, reportVars,
                   outcome, otherVars>>

ClassifyRows ==
    /\ pc = "classify"
    /\ df_combined' = Classify(df_combined)
    /\ pc' = "consolidate"
    /\ UNCHANGED <<ulog, df_position, df_battery, time_threshold, loopVars, reportVars,
                   outcome, otherVars>>

\* consolidate_phases: seeding from the first row (IndexError on an empty frame)
ConsolidateStart ==
    /\ pc = "consolidate"
    /\ IF df_combined = <<>>
       THEN /\ Raise(IndexErrorText)
            /\ UNCHANGED loopVars
       ELSE /\ current_phase' = ConsolidateInit(df_combined).current_phase
            /\ start_time' = ConsolidateInit(df_combined).start_time
            /\ total_time' = ConsolidateInit(df_combined).total_time
            /\ consolidated' = ConsolidateInit(df_combined).consolidated
            /\ row_i' = 1
            /\ pc' = "loop"
            /\ UNCHANGED outcome
    /\ UNCHANGED <<ulog, frameVars, time_threshold, reportVars, otherVars>>

LoopState ==
    [current_phase |-> current_phase, start_time |-> start_time,
     total_time |-> total_time, consolidated |-> consolidated]

\* one iteration of for _, row in df.iterrows()
ConsolidateStep ==
    /\ pc = "loop"
    /\ row_i <= Len(df_combined)
    /\ LET c == ConsolidateRow(LoopState, df_combined[row_i], time_threshold)
       IN /\ current_phase' = c.current_phase
          /\ start_time' = c.start_time
          /\ total_time' = c.total_time
          /\ consolidated' = c.consolidated
    /\ row_i' = row_i + 1
    /\ UNCHANGED <<pc, ulog, frameVars, time_threshold, reportVars, outcome, otherVars>>

\* the flush after the loop; consolidate_phases returns
ConsolidateEnd ==
    /\ pc = "loop"
    /\ row_i > Len(df_combined)
    /\ consolidated' = ConsolidateFlush(LoopState, df_combined, time_threshold)
    /\ pc' = "totals"
    /\ UNCHANGED <<ulog, frameVars, time_threshold, current_phase, start_time, total_time,
                   row_i, reportVars, outcome, otherVars>>

ComputeTotals ==
    /\ pc = "totals"
    /\ df_combined' = WithmAh(df_combined)
    /\ totals' = Totals(WithmAh(df_combined))
    /\ pc' = "aggregate"
    /\ UNCHANGED <<ulog, df_position, df_battery, time_threshold, loopVars, phase_data,
                   df_phase, result_files, outcome, otherVars>>

Aggregate ==
    /\ pc = "aggregate"
    /\ phase_data' = PhaseData(df_combined, consolidated, totals)
    /\ pc' = "summarise"
    /\ UNCHANGED <<ulog, frameVars, time_threshold, loopVars, totals, df_phase,
                   result_files, outcome, otherVars>>

\* groupby("Phase") (KeyError when phase_data is empty), then the summary row
Summarise ==
    /\ pc = "summarise"
    /\ IF phase_data = <<>>
       THEN /\ Raise(KeyErrorText)
            /\ UNCHANGED df_phase
       ELSE /\ df_phase' = ConcatSummary(GroupByPhase(phase_data), totals)
            /\ pc' = "write"
            /\ UNCHANGED outcome
    /\ UNCHANGED <<ulog, frameVars, time_threshold, loopVars, totals, phase_data,
                   result_files, otherVars>>

WriteJson ==
    /\ pc = "write"
    /\ result_files' = [result_files EXCEPT ![ResultName] = ToJson(df_phase)]
    /\ outcome' = ResultPath
    /\ pc' = "done"
    /\ UNCHANGED <<ulog, frameVars, time_threshold, loopVars, totals, phase_data,
                   df_phase, otherVars>>

Init ==
    /\ \E u \in Recordings : RunInit(u, DefaultTimeThreshold)
    /\ NoUploads
    /\ NoClassifier

Next ==
    \/ Load
    \/ Normalize
    \/ Merge
    \/ DeriveAndFilter
    \/ ClassifyRows
    \/ ConsolidateStart
    \/ ConsolidateStep
    \/ ConsolidateEnd
    \/ ComputeTotals
    \/ Aggregate
    \/ Summarise
    \/ WriteJson

Spec == Init /\ [][Next]_vars

\* the step-wise run and the function ProcessUlog agree
RunMatchesFunction ==
    pc = "done" =>
        /\ outcome = ProcessUlog(ulog).returns
        /\ result_files[ResultName] = ProcessUlog(ulog).written

-----------------------------------------------------------------------------
(* consolidate_phases on its own, for any threshold *)

PhaseLabels == {"On the Ground", "Climbing", "Cruising"}

\* frames of (time, raw_phase, time_delta) with strictly increasing time and
\* time_delta = time.diff(); the first row carries 0 (the unfiltered frame of
\* the script) or the gap to the dropped first sample (the filtered frame)
ConsFrames ==
    UNION {
        {[i \in 1..n |-> [time |-> SumTo(g, i), raw_phase |-> l[i], time_delta |-> g[i]]] :
            g \in {h \in [1..n -> Gaps \cup {0}] : \A i \in 2..n : h[i] > 0},
            l \in [1..n -> PhaseLabels]} :
        n \in 1..MaxMotion}

InitCons ==
    /\ pc = "consolidate"
    /\ ulog = None
    /\ df_position = <<>>
    /\ df_battery = <<>>
    /\ df_combined \in ConsFrames
    /\ time_threshold \in 0..MaxThreshold
    /\ current_phase = None
    /\ start_time = 0
    /\ total_time = 0
    /\ row_i = 0
    /\ consolidated = <<>>
    /\ totals = None
    /\ phase_data = <<>>
    /\ df_phase = <<>>
    /\ result_files = [f \in {ResultName} |-> NoFile]
    /\ outcome = None
    /\ NoUploads
    /\ NoClassifier

NextCons ==
    \/ ConsolidateStart
    \/ ConsolidateStep
    \/ ConsolidateEnd

SpecCons == InitCons /\ [][NextCons]_vars

-----------------------------------------------------------------------------
(* The classifier on its own: the np.select form and classify_phase *)

VzValues == {-10, -2, -1, 0, 1, 2, 10}
HvValues == {0, 1, 2, 19, 20, 21, 50}
AltValues == {-10, 0, 49, 50, 51, 100}

RunIdle ==
    /\ pc = "idle"
    /\ ulog = None
    /\ df_position = <<>>
    /\ df_battery = <<>>
    /\ df_combined = <<>>
    /\ time_threshold = DefaultTimeThreshold
    /\ current_phase = None
    /\ start_time = 0
    /\ total_time = 0
    /\ row_i = 0
    /\ consolidated = <<>>
    /\ totals = None
    /\ phase_data = <<>>
    /\ df_phase = <<>>
    /\ result_files = [f \in {ResultName} |-> NoFile]
    /\ outcome = None

InitClassify ==
    /\ RunIdle
    /\ NoUploads
    /\ \E vz \in VzValues, hv \in HvValues, alt \in AltValues :
          cls = [vz |-> vz, hv |-> hv, alt |-> alt,
                 raw_phase |-> None, script_phase |-> None]

\* one row through both classifiers
ClassifyOne ==
    /\ cls.raw_phase = None
    /\ cls' = [cls EXCEPT !.raw_phase = RawPhase(cls.vz, cls.hv, cls.alt),
                          !.script_phase = classify_phase(cls.vz, cls.hv, cls.alt)]
    /\ UNCHANGED <<runVars, uploads, req>>

NextClassify == ClassifyOne

SpecClassify == InitClassify /\ [][NextClassify]_vars

-----------------------------------------------------------------------------
(* The /upload endpoint: upload_file, one thread per request *)

Requests == 1..NumRequests
FileNames == {"a.ulg", "b.ulg", "a.txt", ""}
EndsWithUlg(name) == name \in {"a.ulg", "b.ulg"}

\* three stored recordings: two that analyse to different reports and one
\* (a single motion sample) on which process_ulog returns an error text
OneBattery(c) == <<[timestamp |-> 5, voltage_v |-> 12, current_a |-> c]>>
UploadA ==
    [position |-> [i \in 1..3 |-> [timestamp |-> 3 + (i - 1) * UnitsPerSec, vx |-> 0,
                                   vy |-> 0, vz |-> 0, z |-> 0]],
     battery |-> OneBattery(1)]
UploadB ==
    [position |-> [i \in 1..3 |-> [timestamp |-> 3 + (i - 1) * UnitsPerSec, vx |-> 0,
                                   vy |-> 0, vz |-> -10, z |-> -20]],
     battery |-> OneBattery(2)]
UploadC ==
    [position |-> <<[timestamp |-> 3, vx |-> 0, vy |-> 0, vz |-> 0, z |-> 0]>>,
     battery |-> OneBattery(1)]
UploadContents == {UploadA, UploadB, UploadC}

NewRequest(has_file, name, content) ==
    [pc |-> "validate", has_file |-> has_file, filename |-> name, content |-> content,
     loaded |-> None, result_file |-> None, response |-> None]

InitUpload ==
    /\ RunIdle
    /\ NoClassifier
    /\ uploads = [n \in FileNames |-> None]
    /\ req \in [Requests ->
                  {NewRequest(TRUE, n, c) : n \in FileNames, c \in UploadContents}
                      \cup {NewRequest(FALSE, "", None)}]

JsonError(text, status) == [status |-> status, body |-> [error |-> text]]

\* the two early returns of upload_file
Validate(r) ==
    /\ req[r].pc = "validate"
    /\ req' = [req EXCEPT ![r] =
          IF ~req[r].has_file
          THEN [@ EXCEPT !.pc = "done", !.response = JsonError("No file uploaded", 400)]
          ELSE IF req[r].filename = "" \/ ~EndsWithUlg(req[r].filename)
          THEN [@ EXCEPT !.pc = "done", !.response = JsonError("Invalid file format", 400)]
          ELSE [@ EXCEPT !.pc = "save"]]
    /\ UNCHANGED <<runVars, uploads, cls>>

\* file.save(os.path.join(UPLOAD_FOLDER, file.filename))
Save(r) ==
    /\ req[r].pc = "save"
    /\ uploads' = [uploads EXCEPT ![req[r].filename] = req[r].content]
    /\ req' = [req EXCEPT ![r].pc = "read_upload"]
    /\ UNCHANGED <<runVars, cls>>

\* process_ulog begins: ULog(file_path) reads the stored upload
ReadUpload(r) ==
    /\ req[r].pc = "read_upload"
    /\ req' = [req EXCEPT ![r].loaded = uploads[req[r].filename], ![r].pc = "analyse"]
    /\ UNCHANGED <<runVars, uploads, cls>>

\* process_ulog ends: the result file is written, or the error text returned
Analyse(r) ==
    /\ req[r].pc = "analyse"
    /\ LET p == ProcessUlog(req[r].loaded)
       IN /\ result_files' =
                 IF ~EndsWithJson(p.returns) THEN result_files
                 ELSE [result_files EXCEPT ![ResultName] = p.written]
          /\ req' = [req EXCEPT ![r].result_file = p.returns, ![r].pc = "respond"]
    /\ UNCHANGED <<pc, ulog, frameVars, time_threshold, loopVars, totals, phase_data,
                   df_phase, outcome, uploads, cls>>

\* the result file is read back and returned, or the error is
Respond(r) ==
    /\ req[r].pc = "respond"
    /\ req' = [req EXCEPT ![r].pc = "done",
                          ![r].response =
                              IF EndsWithJson(req[r].result_file)
                              THEN [status |-> 200, body |-> result_files[ResultName]]
                              ELSE JsonError(req[r].result_file, 500)]
    /\ UNCHANGED <<runVars, uploads, cls>>

NextUpload ==
    \E r \in Requests :
        \/ Validate(r)
        \/ Save(r)
        \/ ReadUpload(r)
        \/ Analyse(r)
        \/ Respond(r)

SpecUpload == InitUpload /\ [][NextUpload]_vars

-----------------------------------------------------------------------------
(* Uploads served one after another: the request sequences in which no two  *)
(* runs overlap                                                             *)

\* recordings whose motion series or battery series is empty
UploadNoMotion == [position |-> <<>>, battery |-> OneBattery(1)]
UploadNoBattery == [position |-> UploadA.position, battery |-> <<>>]
SerialContents == UploadContents \cup {UploadNoMotion, UploadNoBattery}

InitSerial ==
    /\ RunIdle
    /\ NoClassifier
    /\ uploads = [n \in FileNames |-> None]
    /\ req \in [Requests ->
                  {NewRequest(TRUE, n, c) : n \in FileNames, c \in SerialContents}
                      \cup {NewRequest(FALSE, "", None)}]

\* no other request is between its arrival and its response
Idle(r) == \A q \in Requests \ {r} : req[q].pc \in {"validate", "done"}

\* a request is taken up when no other one is being served
Arrive(r) == Idle(r) /\ Validate(r)

NextSerial ==
    \E r \in Requests :
        \/ Arrive(r)
        \/ Save(r)
        \/ ReadUpload(r)
        \/ Analyse(r)
        \/ Respond(r)

SpecSerial == InitSerial /\ [][NextSerial]_vars

-----------------------------------------------------------------------------
(* Label runs of a classified frame, defined from the rows alone *)

RunStarts(df) == {a \in 1..Len(df) : a = 1 \/ df[a - 1].raw_phase # df[a].raw_phase}

\* last row of the maximal run that begins at row a
RunEnd(df, a) ==
    CHOOSE b \in a..Len(df) :
        /\ \A i \in a..b : df[i].raw_phase = df[a].raw_phase
        /\ b = Len(df) \/ df[b + 1].raw_phase # df[a].raw_phase

\* first row of the maximal run that holds row i
RunStartOf(df, i) == CHOOSE a \in RunStarts(df) : a <= i /\ i <= RunEnd(df, a)

RECURSIVE DeltaSum(_, _, _)
DeltaSum(df, a, b) == IF a > b THEN 0 ELSE df[a].time_delta + DeltaSum(df, a + 1, b)

\* accumulated time_delta of the run that begins at row a
RunDuration(df, a) == DeltaSum(df, a, RunEnd(df, a))

\* the run that begins at row a has a segment in segs
RunEmitted(df, segs, a) ==
    \E k \in 1..Len(segs) : segs[k][1] = df[a].raw_phase /\ segs[k][2] = df[a].time

\* the rows whose run was emitted
EmittedRows(df, segs) ==
    LET marked == [i \in 1..Len(df) |->
                      df[i] @@ [emitted |-> RunEmitted(df, segs, RunStartOf(df, i))]]
        IsEmitted(r) == r.emitted
    IN SelectSeq(marked, IsEmitted)

IsPhaseRecord(r) == r.Phase # SummaryLabel
PhaseRecords(report) == SelectSeq(report, IsPhaseRecord)

Reported == pc = "done" /\ outcome = ResultPath

-----------------------------------------------------------------------------
(* Claims *)

\* C1: the flight-wide total draw is the sum of charge_draw over the kept rows,
\* the phase records' total draws add up to the charge_draw of exactly the rows
\* whose run was emitted, and when every run is emitted they add up to the
\* flight-wide total.
C1_EnergyConserved ==
    Reported =>
        /\ totals.total_mAh = FSum(Col(df_combined, "mAh"))
        /\ FSum(Col(PhaseRecords(df_phase), "TotalDraw"))
              = FSum(Col(EmittedRows(df_combined, consolidated), "mAh"))
        /\ (\A a \in RunStarts(df_combined) : RunEmitted(df_combined, consolidated, a))
              => FSum(Col(PhaseRecords(df_phase), "TotalDraw")) = totals.total_mAh

\* C3: with at least one motion sample and one battery sample the run ends by
\* returning the report, never an error text.
C3_TotalOnNonEmpty ==
    (pc = "done" /\ ulog.position # <<>> /\ ulog.battery # <<>>) => outcome = ResultPath

\* the response upload_file owes a request that stored the recording c
OwnResponseGiven(resp, c) ==
    LET p == ProcessUlog(c)
    IN IF EndsWithJson(p.returns)
       THEN resp.status = 200 /\ resp.body = p.written
       ELSE resp.status = 500 /\ resp.body.error = p.returns

Accepted(r) == req[r].has_file /\ EndsWithUlg(req[r].filename)

\* C2: two concurrent uploads of different recordings are independent: each
\* analyses the recording it stored and each is answered with the report (or
\* the error) of its own recording.
C2_RunsIndependent ==
    \A r \in Requests, q \in Requests :
        (r # q /\ Accepted(r) /\ Accepted(q) /\ req[r].content # req[q].content) =>
            /\ req[r].pc \in {"analyse", "respond", "done"} => req[r].loaded = req[r].content
            /\ req[r].pc = "done" => OwnResponseGiven(req[r].response, req[r].content)

\* the same, for uploads stored under different file names
C2_DistinctNames ==
    \A r \in Requests, q \in Requests :
        (r # q /\ Accepted(r) /\ Accepted(q) /\ req[r].content # req[q].content
             /\ req[r].filename # req[q].filename) =>
            (req[r].pc = "done" => OwnResponseGiven(req[r].response, req[r].content))

\* the consolidator has run to its return
Consolidated == pc = "totals"

\* C4: for every threshold >= 0, a maximal run of same-label rows whose
\* accumulated time_delta is below the threshold has no segment in the output,
\* whether a label change closed it or it was the last run; every segment in
\* the output is a run that meets the threshold.
C4_ShortRunsNeverEmitted ==
    pc \in {"loop", "totals"} =>
        /\ \A a \in RunStarts(df_combined) :
              RunDuration(df_combined, a) < time_threshold
                  => ~RunEmitted(df_combined, consolidated, a)
        /\ \A k \in 1..Len(consolidated) :
              \E a \in RunStarts(df_combined) :
                  /\ consolidated[k][1] = df_combined[a].raw_phase
                  /\ consolidated[k][2] = df_combined[a].time
                  /\ RunDuration(df_combined, a) >= time_threshold

\* a short run closed by a label change and a short last run, both left out,
\* next to a run that was emitted
C4_Witness ==
    /\ Consolidated
    /\ time_threshold > 0
    /\ \E a \in RunStarts(df_combined) :
          /\ RunEnd(df_combined, a) < Len(df_combined)
          /\ RunDuration(df_combined, a) < time_threshold
          /\ ~RunEmitted(df_combined, consolidated, a)
    /\ \E a \in RunStarts(df_combined) :
          /\ RunEnd(df_combined, a) = Len(df_combined)
          /\ RunDuration(df_combined, a) < time_threshold
          /\ RunDuration(df_combined, a) > 0
          /\ ~RunEmitted(df_combined, consolidated, a)
    /\ consolidated # <<>>

\* row i is a stray: one row of another label, shorter than the threshold,
\* inside rows of one label
Stray(df, i) ==
    /\ 1 < i /\ i < Len(df)
    /\ df[i].raw_phase # df[i - 1].raw_phase
    /\ df[i - 1].raw_phase = df[i + 1].raw_phase
    /\ df[i].time_delta < time_threshold

\* the pieces before and after the stray row i each meet the threshold
LongSides(df, i) ==
    /\ RunDuration(df, RunStartOf(df, i - 1)) >= time_threshold
    /\ RunDuration(df, i + 1) >= time_threshold

Aggregated == pc \in {"summarise", "write", "done"}

GroundRule(vz, hv, alt) == Abs(vz) < 1 /\ Abs(hv) < 1 /\ alt < 50
CruisingRule(vz, hv, alt) == hv > 20 /\ alt >= 50
DescendingRule(vz, hv, alt) == vz > 1
ClimbingRule(vz, hv, alt) == vz < -1
HoveringRule(vz, hv, alt) == Abs(vz) < 1 /\ alt >= 50

Classified == cls.raw_phase # None

\* C6: every input gets exactly one label, that of the first rule that holds
\* in the order Ground, Cruising, Descending, Climbing, Hovering, and Unknown
\* when none holds; an input satisfying the Ground and the Cruising rule gets
\* Ground; the np.select form and classify_phase give the same label.
C6_FirstMatchWins ==
    Classified =>
        LET G == GroundRule(cls.vz, cls.hv, cls.alt)
            C == CruisingRule(cls.vz, cls.hv, cls.alt)
            D == DescendingRule(cls.vz, cls.hv, cls.alt)
            U == ClimbingRule(cls.vz, cls.hv, cls.alt)
            H == HoveringRule(cls.vz, cls.hv, cls.alt)
        IN /\ cls.raw_phase = cls.script_phase
           /\ cls.raw_phase \in {"On the Ground", "Cruising", "Descending", "Climbing",
                                 "Hovering", "Unknown"}
           /\ G => cls.raw_phase = "On the Ground"
           /\ (G /\ C) => cls.raw_phase = "On the Ground"
           /\ (~G /\ C) => cls.raw_phase = "Cruising"
           /\ (~G /\ ~C /\ D) => cls.raw_phase = "Descending"
           /\ (~G /\ ~C /\ ~D /\ U) => cls.raw_phase = "Climbing"
           /\ (~G /\ ~C /\ ~D /\ ~U /\ H) => cls.raw_phase = "Hovering"
           /\ (~G /\ ~C /\ ~D /\ ~U /\ ~H) => cls.raw_phase = "Unknown"

\* an input on which two rules hold (Cruising and Descending) and the earlier wins
C6_Witness ==
    /\ Classified
    /\ CruisingRule(cls.vz, cls.hv, cls.alt)
    /\ DescendingRule(cls.vz, cls.hv, cls.alt)
    /\ cls.raw_phase = "Cruising"
    /\ cls.script_phase = "Cruising"

\* the Ground and the Cruising rule never hold together (altitude < 5 against
\* altitude >= 5), so that clause of C6 has no instance
GroundCruisingDisjoint ==
    ~(GroundRule(cls.vz, cls.hv, cls.alt) /\ CruisingRule(cls.vz, cls.hv, cls.alt))

\* rebased time of sample j of a raw series
Rebased(series, j) == series[j].timestamp - series[1].timestamp

\* distance on the two rebased axes between motion sample i and battery sample j
Distance(u, i, j) == Abs(Rebased(u.position, i) - Rebased(u.battery, j))

\* the battery sample row i was paired with
PairedWith(u, row) == CHOOSE j \in 1..Len(u.battery) : u.battery[j].timestamp = row.timestamp_y

Merged == pc = "derive"

\* C7: the aligner gives exactly one row per motion sample, in order, with
\* non-decreasing time, each paired with a battery sample at the least distance on
\* the independently rebased axes, the earlier one of two equally near.
C7_NearestJoin ==
    Merged =>
        /\ Len(df_combined) = Len(ulog.position)
        /\ \A i \in 1..Len(df_combined) :
              /\ df_combined[i].timestamp_x = ulog.position[i].timestamp
              /\ df_combined[i].time = Rebased(ulog.position, i)
              /\ i < Len(df_combined) => df_combined[i].time <= df_combined[i + 1].time
              /\ LET j == PairedWith(ulog, df_combined[i])
                 IN /\ df_combined[i].current_a = ulog.battery[j].current_a
                    /\ \A k \in 1..Len(ulog.battery) :
                          /\ Distance(ulog, i, j) <= Distance(ulog, i, k)
                          /\ Distance(ulog, i, j) = Distance(ulog, i, k) => j <= k

\* a motion sample exactly between two of three battery samples, paired with
\* the earlier
C7_Witness ==
    /\ Merged
    /\ Len(ulog.battery) = 3
    /\ \E i \in 1..Len(df_combined) :
          \E j \in 1..Len(ulog.battery), k \in 1..Len(ulog.battery) :
              /\ j < k
              /\ Distance(ulog, i, j) = Distance(ulog, i, k)
              /\ PairedWith(ulog, df_combined[i]) = j
              /\ ulog.battery[j].current_a # ulog.battery[k].current_a

\* the report file the run wrote
Report == result_files[ResultName]

\* current * seconds / 3.6, the charge scale of battery_analysis.py
Charge(current, seconds) == Rat(10 * current * seconds, 36)

\* the report has the phase records of exactly these labels, in this order,
\* and then one summary record
RecordsAre(report, labels) ==
    /\ Len(report) = Len(labels) + 1
    /\ \A i \in 1..Len(labels) : report[i].Phase = labels[i]
    /\ report[Len(report)].Phase = SummaryLabel

Labelled == pc \in {"consolidate", "loop", "totals", "aggregate", "summarise", "write", "done"}

\* C9: in scenario 1 every classified row is "On the Ground"; the run writes a
\* report whose only phase record is "On the Ground" with a time share of 100;
\* the non-ground baseline lasts 0 s and the record's relative draw is not a
\* number in the frame and null in the written report.
C9_Scenario1 ==
    ulog \in Scenario1 =>
        /\ Labelled => \A i \in 1..Len(df_combined) : df_combined[i].raw_phase = "On the Ground"
        /\ pc = "done" =>
              /\ outcome = ResultPath
              /\ RecordsAre(Report, <<"On the Ground">>)
              /\ Report[1].PctTime = Num(100)
              /\ totals.total_time_non_ground = Num(0)
              /\ IsNaN(df_phase[1].DiffofAvg)
              /\ Report[1].DiffofAvg = Null

C9_Witness ==
    /\ Reported
    /\ ulog \in Scenario1
    /\ Len(df_combined) = 9
    /\ Report[1].TotalDraw = Charge(5, 8)

\* the values of field (or tuple position) f in s, as a set
LabelSet(s, f) == {s[i][f] : i \in 1..Len(s)}

\* position of a label in the sorted order of the labels
Rank(l) == CHOOSE i \in 1..Len(LabelOrder) : LabelOrder[i] = l

\* no label twice among the phase records, and the summary once and last
WellFormed(report) ==
    /\ report # <<>>
    /\ report[Len(report)].Phase = SummaryLabel
    /\ \A i \in 1..(Len(report) - 1) : report[i].Phase # SummaryLabel
    /\ \A i \in 1..(Len(report) - 1), j \in 1..(Len(report) - 1) :
          i # j => report[i].Phase # report[j].Phase

\* C10 as claimed: one record for each label present in the flight's rows.
C10_ReportAsClaimed ==
    Reported =>
        /\ WellFormed(Report)
        /\ LabelSet(PhaseRecords(Report), "Phase") = LabelSet(df_combined, "raw_phase")

\* C10 amended: the report of every run that writes one holds exactly one
\* record for each distinct label that has an emitted segment (no label twice,
\* none missing, none else), in ascending label order, followed by exactly one
\* "Total Flight Summary" record, the last element.
C10_Report ==
    Reported =>
        /\ WellFormed(Report)
        /\ LabelSet(PhaseRecords(Report), "Phase") = LabelSet(consolidated, 1)
        /\ \A i \in 1..(Len(Report) - 2) : Rank(Report[i].Phase) < Rank(Report[i + 1].Phase)

\* a report where one label has two segments and a label of the rows has none
C10_Witness ==
    /\ Reported
    /\ \E i \in 1..Len(consolidated), j \in 1..Len(consolidated) :
          i # j /\ consolidated[i][1] = consolidated[j][1]
    /\ LabelSet(df_combined, "raw_phase") # LabelSet(consolidated, 1)

\* the run ended after the totals were computed (at least one row was kept)
Totalled == pc = "done" /\ df_combined # <<>>

\* the three denominators of the reported ratios
ZeroFlightDuration == totals.total_time = Num(0)
ZeroBaseline == totals.total_time_non_ground = Num(0)
ZeroSegment(seg) == seg[3] = seg[2]

\* every segment of the label has a zero duration
AllSegmentsZero(label) ==
    \A k \in 1..Len(consolidated) : consolidated[k][1] = label => ZeroSegment(consolidated[k])

\* C11: whenever the flight's total duration, the non-ground baseline's total
\* duration or a segment's duration is zero, the run still ends with a written
\* report, and in that report each ratio over the zero denominator is the
\* "unavailable" marker (null), never a number, NaN or an infinity.
C11_DegenerateRecoverable ==
    Totalled =>
        /\ (ZeroFlightDuration \/ ZeroBaseline) => outcome = ResultPath
        /\ outcome = ResultPath =>
              /\ \A i \in 1..(Len(Report) - 1) :
                    /\ ZeroBaseline => Report[i].DiffofAvg = Null
                    /\ ZeroFlightDuration => Report[i].PctTime = Null
                    /\ AllSegmentsZero(Report[i].Phase) => Report[i].AvgDr = Null
              /\ ZeroFlightDuration => Report[Len(Report)].DrawPerMinute = Null

\* what the code does on a flight of zero duration (one kept row): the run fails
\* on the empty segment list, or it writes a report whose only phase record has
\* a time share of 0 (the sum of no number), a null average rate and a null
\* relative draw, next to an infinite draw per minute in the frame
C11_ZeroFlightOutcomes ==
    (Totalled /\ ZeroFlightDuration) =>
        \/ outcome = KeyErrorText
        \/ /\ outcome = ResultPath
           /\ Len(Report) = 2
           /\ Report[1].PctTime = Num(0)
           /\ Report[1].AvgDr = Null
           /\ Report[1].DiffofAvg = Null
           /\ IsInf(df_phase[2].DrawPerMinute)
           /\ Report[2].DrawPerMinute = Null

\* the motion series or the battery series of the recording is empty
EmptySeries(c) == c.position = <<>> \/ c.battery = <<>>

\* the report file is absent or the report of a run that returned its path
FileFromSuccessfulRun ==
    \/ result_files[ResultName] = NoFile
    \/ \E q \in Requests :
          /\ req[q].result_file = ResultPath
          /\ result_files[ResultName] = ProcessUlog(req[q].loaded).written

\* request r is at a position of upload_file that has a next step; the steps
\* have no other guard (the code takes no lock and waits for nothing)
HasNextStep(r) == req[r].pc \in {"validate", "save", "read_upload", "analyse", "respond"}

\* C12: a run on a recording with an empty motion or battery series ends in an
\* error outcome and is answered with status 500 and the error, never a report;
\* the report file is never the output of a failed run; and with failed runs
\* before it, every run that does not overlap another one always has a next
\* step until it has responded, analyses the recording it stored and is
\* answered with its own report (or its own error).
C12_PreconditionFailureLocal ==
    /\ FileFromSuccessfulRun
    /\ \A r \in Requests :
          /\ req[r].pc # "done" => HasNextStep(r)
          /\ (Accepted(r) /\ req[r].pc \in {"respond", "done"}) =>
                /\ req[r].loaded = req[r].content
                /\ EmptySeries(req[r].content) => req[r].result_file = IndexErrorText
          /\ (Accepted(r) /\ req[r].pc = "done") =>
                /\ OwnResponseGiven(req[r].response, req[r].content)
                /\ EmptySeries(req[r].content) =>
                      /\ req[r].response.status = 500
                      /\ req[r].response.body = [error |-> IndexErrorText]

\* a failed run on an empty series, then a run on a valid recording stored
\* under the same file name, answered with its own report
C12_Witness ==
    \E r \in Requests, q \in Requests :
        /\ r # q
        /\ req[r].pc = "done" /\ req[q].pc = "done"
        /\ Accepted(r) /\ Accepted(q)
        /\ req[r].filename = req[q].filename
        /\ EmptySeries(req[r].content)
        /\ req[r].response.status = 500
        /\ req[q].response.status = 200
        /\ uploads[req[q].filename] = req[q].content
        /\ req[q].response.body = ProcessUlog(req[q].content).written
        /\ result_files[ResultName] = req[q].response.body

\* the segment the maximal run beginning at row a stands for: from the time of
\* its first row to the time of the first row of the following run (for the
\* last run, to the time of the last row)
RunSegment(df, a) ==
    <<df[a].raw_phase, df[a].time,
      IF RunEnd(df, a) < Len(df) THEN df[RunEnd(df, a) + 1].time ELSE df[Len(df)].time>>

\* the segments, in input order, of the maximal runs that end before row n and
\* whose accumulated time_delta meets the threshold
RunSegments(df, n, threshold) ==
    LET Kept(a) == /\ a \in RunStarts(df)
                   /\ RunEnd(df, a) < n
                   /\ RunDuration(df, a) >= threshold
        starts == SelectSeq([i \in 1..Len(df) |-> i], Kept)
    IN [k \in 1..Len(starts) |-> RunSegment(df, starts[k])]

\* C13: the loop state is seeded with the first row's label and time and an
\* accumulated duration of 0; after each row it holds the label and the first
\* row's time of the run the row belongs to and the time_delta accumulated over
\* that run so far (a label change resets it to the new row's label, time and
\* time_delta), and the output holds, in input order and once each, the
\* segments of exactly the closed maximal runs that meet the threshold; the
\* returned list is that of all maximal runs that meet the threshold.
C13_MaximalRuns ==
    /\ pc = "loop" =>
          LET n == row_i - 1
          IN IF n = 0
             THEN /\ current_phase = df_combined[1].raw_phase
                  /\ start_time = df_combined[1].time
                  /\ total_time = 0
                  /\ consolidated = <<>>
             ELSE LET a == RunStartOf(df_combined, n)
                  IN /\ current_phase = df_combined[a].raw_phase
                     /\ start_time = df_combined[a].time
                     /\ total_time = DeltaSum(df_combined, a, n)
                     /\ consolidated = RunSegments(df_combined, n, time_threshold)
    /\ pc = "totals" =>
          consolidated = RunSegments(df_combined, Len(df_combined) + 1, time_threshold)

\* two runs emitted, the last one by the flush, and a run between them left out
C13_Witness ==
    /\ Consolidated
    /\ time_threshold > 0
    /\ Len(consolidated) = 2
    /\ Cardinality(RunStarts(df_combined)) = 3
    /\ ~RunEmitted(df_combined, consolidated, RunEnd(df_combined, 1) + 1)
    /\ consolidated[2][3] = df_combined[Len(df_combined)].time
    /\ consolidated[1][3] < consolidated[2][2]

\* C14: every emitted segment has a reported duration end_time - start_time,
\* the 'TotalTime(s)' of its record, of at least the threshold, hence above 0.
C14_SegmentDurationMeetsThreshold ==
    Aggregated =>
        \A k \in 1..Len(consolidated) :
            /\ phase_data[k].TotalTime = Secs(consolidated[k][3] - consolidated[k][2])
            /\ consolidated[k][3] - consolidated[k][2] >= time_threshold
            /\ consolidated[k][3] - consolidated[k][2] > 0

\* what the code gives instead: the duration of a segment is the accumulated
\* time_delta of its run less the time_delta of the run's first row, plus, for
\* a run closed by a label change, the time_delta of the row that closed it
C14_SegmentDurationIs ==
    Aggregated =>
        \A k \in 1..Len(consolidated) :
            \E a \in RunStarts(df_combined) :
                LET b == RunEnd(df_combined, a)
                IN /\ consolidated[k] = RunSegment(df_combined, a)
                   /\ consolidated[k][3] - consolidated[k][2]
                         = RunDuration(df_combined, a) - df_combined[a].time_delta
                             + (IF b < Len(df_combined) THEN df_combined[b + 1].time_delta
                                ELSE 0)

\* the kept rows have strictly increasing times and the flight lasts more than 0
PositiveFlight ==
    /\ \A i \in 1..(Len(df_combined) - 1) : df_combined[i].time < df_combined[i + 1].time
    /\ df_combined[Len(df_combined)].time > df_combined[1].time

\* C15: in every reported run with strictly increasing row times and a positive
\* flight duration, the emitted segments are in time order, each ends no later
\* than the next one starts, all lie between the first and the last row's time,
\* and the 'PctTime of Flight(%)' of the phase records add up to the summed
\* segment durations over the flight duration, which is at most 100.
C15_SegmentsDisjoint ==
    (Reported /\ PositiveFlight) =>
        /\ \A k \in 1..Len(consolidated) :
              /\ df_combined[1].time <= consolidated[k][2]
              /\ consolidated[k][2] <= consolidated[k][3]
              /\ consolidated[k][3] <= df_combined[Len(df_combined)].time
              /\ k < Len(consolidated) => consolidated[k][3] <= consolidated[k + 1][2]
        /\ FSum(Col(PhaseRecords(Report), "PctTime"))
              = FMul(FDiv(FSum(Col(phase_data, "TotalTime")), totals.total_time), Num(100))
        /\ FLeq(FSum(Col(PhaseRecords(Report), "PctTime")), Num(100))

\* a report over two segments with a left-out run between them: the time
\* shares add up to less than 100
C15_Witness ==
    /\ Reported
    /\ PositiveFlight
    /\ Len(consolidated) = 2
    /\ consolidated[1][3] < consolidated[2][2]
    /\ consolidated[1][1] # consolidated[2][1]
    /\ Len(Report) = 3
    /\ ~FLeq(Num(100), FSum(Col(PhaseRecords(Report), "PctTime")))
    /\ ~FLeq(Report[1].PctTime, Num(0))

====
